---- MODULE Spec2Model ----
(***************************************************************************)
(* Gambler's Ruin stepper (src/script.js): the matrix algebra, the chain   *)
(* builder, the vector propagation and the simulation session, as a state  *)
(* machine.                                                                *)
(*                                                                         *)
(* Numbers.  A JavaScript value is a triple <<t, n, d>>: t = "number" is   *)
(* the rational n/d in lowest terms (d > 0), t = "NaN" and t = "undefined" *)
(* are the two non-numbers the handlers can be given, t = "text" is the    *)
(* content of an input field that is no numeral.  Every probability the    *)
(* model feeds in is a dyadic rational and every run is bounded, so the    *)
(* IEEE doubles of the program represent each value exactly and rational   *)
(* arithmetic is what the program computes.  The sign of zero is dropped   *)
(* (-0 and 0 are both falsy and compare equal).                            *)
(*                                                                         *)
(* Arrays are sequences: JavaScript index i is sequence index i + 1.       *)
(***************************************************************************)
EXTENDS Integers, Sequences, FiniteSets, TLC

VARIABLES N_global, n_global, p_global, currentStep, transitionMatrix,
          currentVector, last

vars == <<N_global, n_global, p_global, currentStep, transitionMatrix,
          currentVector, last>>

session == <<N_global, n_global, p_global, currentStep, transitionMatrix,
             currentVector>>

(***************************************************************************)
(* Bounds of the model.                                                    *)
(***************************************************************************)
MaxN == 3
MaxK == 3
MaxStep == 4

(***************************************************************************)
(* JavaScript numbers.                                                     *)
(***************************************************************************)
Abs(x) == IF x < 0 THEN -x ELSE x

RECURSIVE GCD(_, _)
GCD(a, b) == IF b = 0 THEN a ELSE GCD(b, a % b)

Rat(n, d) ==
    LET g == GCD(Abs(n), d)
    IN  <<"number", n \div g, d \div g>>

\* The parts of a value: its type tag, numerator and denominator.
Tag(a) == a[1]
Numer(a) == a[2]
Denom(a) == a[3]

Num(i) == Rat(i, 1)
Zero == Num(0)
One == Num(1)
Two == Num(2)
NaN == <<"NaN", 0, 1>>
Undefined == <<"undefined", 0, 1>>
Text == <<"text", 0, 1>>

IsNum(a) == Tag(a) = "number"
\* a + b, a - b, a * b (the cases with a 0 or a 1 are shortcuts to the same value).
Add(a, b) ==
    IF Numer(a) = 0 THEN b ELSE IF Numer(b) = 0 THEN a
    ELSE Rat(Numer(a) * Denom(b) + Numer(b) * Denom(a), Denom(a) * Denom(b))
Sub(a, b) ==
    IF Numer(b) = 0 THEN a
    ELSE Rat(Numer(a) * Denom(b) - Numer(b) * Denom(a), Denom(a) * Denom(b))
Mul(a, b) ==
    IF Numer(a) = 0 \/ Numer(b) = 0 THEN Zero
    ELSE IF a = One THEN b ELSE IF b = One THEN a
    ELSE Rat(Numer(a) * Numer(b), Denom(a) * Denom(b))
IsInteger(a) == IsNum(a) /\ Denom(a) = 1

\* a < b, a > b, a === b of JavaScript: false as soon as an operand is no number
\* (undefined converts to NaN in a comparison).
JsLt(a, b) == IsNum(a) /\ IsNum(b) /\ Numer(a) * Denom(b) < Numer(b) * Denom(a)
JsGt(a, b) == JsLt(b, a)
JsLe(a, b) == IsNum(a) /\ IsNum(b) /\ Numer(a) * Denom(b) <= Numer(b) * Denom(a)
StrictEq(a, b) == IsNum(a) /\ IsNum(b) /\ a = b
\* isNaN(x): true of NaN and of undefined.
isNaN(a) == ~IsNum(a)
\* x || dflt on a number: NaN and 0 are falsy.
OrElse(a, dflt) == IF isNaN(a) \/ Numer(a) = 0 THEN dflt ELSE a
\* Math.floor, and x % 2 for x > 0.
Floor(a) == Num(Numer(a) \div Denom(a))
Mod2(a) == Sub(a, Mul(Two, Floor(Mul(a, Rat(1, 2)))))
Min(a, b) == IF JsLt(b, a) THEN b ELSE a
Max(a, b) == IF JsGt(b, a) THEN b ELSE a
\* parseInt / parseFloat of an input field's content.
parseInt(s) ==
    IF Tag(s) # "number" THEN NaN
    ELSE IF Numer(s) >= 0 THEN Num(Numer(s) \div Denom(s))
    ELSE Num(-((-Numer(s)) \div Denom(s)))
parseFloat(s) == IF Tag(s) # "number" THEN NaN ELSE s

(***************************************************************************)
(* Outcome of a call, <<threw, error, value>>: a returned value or a       *)
(* thrown exception.                                                       *)
(***************************************************************************)
Ret(v) == <<FALSE, "", v>>
Throw(e) == <<TRUE, e, <<>>>>
Threw(o) == o[1]
Val(o) == o[3]

RECURSIVE SumTo(_, _)
\* f[1] + ... + f[n], accumulated from 0 as the += loops do.
SumTo(f, n) == IF n = 0 THEN Zero ELSE Add(SumTo(f, n - 1), f[n])

(***************************************************************************)
(* 1. Core mathematical utilities.                                         *)
(***************************************************************************)
matrixMultiply(A, B) ==
    IF Len(A) = 0 \/ Len(B) = 0
    THEN Throw("TypeError")                      \* A[0].length, B[0].length
    ELSE IF Len(A[1]) # Len(B)
    THEN Throw("Error: Matrix dimensions are incompatible for multiplication.")
    ELSE Ret([i \in 1..Len(A) |->
              [j \in 1..Len(B[1]) |->
                 SumTo([k \in 1..Len(A[1]) |-> Mul(A[i][k], B[k][j])],
                       Len(A[1]))]])

identityMatrix(n) ==
    [i \in 1..n |-> [j \in 1..n |-> IF i = j THEN One ELSE Zero]]

RECURSIVE powerLoop(_, _, _)
\* The while loop of matrixPower.
powerLoop(result, base, exp) ==
    IF ~JsGt(exp, Zero) THEN Ret(result)
    ELSE LET r1 == IF StrictEq(Mod2(exp), One)
                   THEN matrixMultiply(result, base)
                   ELSE Ret(result)
             b1 == matrixMultiply(base, base)
         IN  IF Threw(r1) THEN r1
             ELSE IF Threw(b1) THEN b1
             ELSE powerLoop(Val(r1), Val(b1), Floor(Mul(exp, Rat(1, 2))))

\* A variant of matrixPower whose accumulator starts at M instead of the identity.
matrixPowerFromM(M, k) ==
    IF StrictEq(k, Zero) THEN Ret(identityMatrix(Len(M)))
    ELSE IF StrictEq(k, One) THEN Ret(M)
    ELSE powerLoop(M, M, k)

matrixPower(M, k) ==
    IF StrictEq(k, Zero) THEN Ret(identityMatrix(Len(M)))
    ELSE IF StrictEq(k, One) THEN Ret(M)
    ELSE powerLoop(identityMatrix(Len(M)), M, k)

\* A variant of generateTransitionMatrix with q set to p instead of 1 - p.
generateTransitionMatrixQisP(N, p) ==
    IF N + 1 < 0 THEN Throw("RangeError")
    ELSE Ret([i \in 1..(N + 1) |->
              [j \in 1..(N + 1) |->
                 IF i - 1 = 0 \/ i - 1 = N
                 THEN (IF j = i THEN One ELSE Zero)
                 ELSE IF j = i + 1 THEN p
                 ELSE IF j = i - 1 THEN p
                 ELSE Zero]])

\* A variant of generateTransitionMatrix in which only state 0 is absorbing.
generateTransitionMatrixGoalLeaks(N, p) ==
    IF N + 1 < 0 THEN Throw("RangeError")
    ELSE Ret([i \in 1..(N + 1) |->
              [j \in 1..(N + 1) |->
                 IF i - 1 = 0
                 THEN (IF j = i THEN One ELSE Zero)
                 ELSE IF j = i + 1 THEN p
                 ELSE IF j = i - 1 THEN Sub(One, p)
                 ELSE Zero]])

\* N is an integer; Array(size) throws a RangeError for a negative size.
generateTransitionMatrix(N, p) ==
    IF N + 1 < 0 THEN Throw("RangeError")
    ELSE Ret([i \in 1..(N + 1) |->
              [j \in 1..(N + 1) |->
                 IF i - 1 = 0 \/ i - 1 = N
                 THEN (IF j = i THEN One ELSE Zero)
                 ELSE IF j = i + 1 THEN p
                 ELSE IF j = i - 1 THEN Sub(One, p)
                 ELSE Zero]])

generateInitialVector(N, n) ==
    IF N + 1 < 0 THEN Throw("RangeError")
    ELSE Ret([i \in 1..(N + 1) |->
                IF n >= 0 /\ n <= N /\ i - 1 = n THEN One ELSE Zero])

\* A variant of vectorMatrixMultiply whose inner loop stops one row early.
vectorMatrixMultiplySkipLast(v, M) ==
    IF Len(M) = 0 THEN Throw("TypeError")
    ELSE IF Len(M[1]) > 0 /\ Len(v) - 1 > Len(M) THEN Throw("TypeError")
    ELSE Ret([j \in 1..Len(M[1]) |->
                SumTo([i \in 1..(Len(v) - 1) |-> Mul(v[i], M[i][j])], Len(v) - 1)])

\* M[i] is undefined for i >= M.length, and M[i][j] then throws.
vectorMatrixMultiply(v, M) ==
    IF Len(M) = 0 THEN Throw("TypeError")        \* M[0].length
    ELSE IF Len(M[1]) > 0 /\ Len(v) > Len(M) THEN Throw("TypeError")
    ELSE Ret([j \in 1..Len(M[1]) |->
                SumTo([i \in 1..Len(v) |-> Mul(v[i], M[i][j])], Len(v))])

(***************************************************************************)
(* Inputs: what the input fields can hold when Reset is clicked, and what  *)
(* advanceSteps can be called with.                                        *)
(***************************************************************************)
NGoalInputs == {Text} \cup {Num(i) : i \in (-2..0) \cup (2..MaxN)}
NStartInputs == {Num(-3), Num(1), Num(99)}
PWinInputs == {Text, Rat(-1, 2), Rat(1, 4), Rat(1, 2), Rat(3, 2)}
ResetInputs == NGoalInputs \X NStartInputs \X PWinInputs
KInputs == {Undefined, NaN} \cup {Rat(h, 2) : h \in -2..(2 * MaxK)}

(***************************************************************************)
(* 2. Global state and simulation logic.                                   *)
(***************************************************************************)
Init ==
    /\ N_global = 5
    /\ n_global = 3
    /\ p_global = Rat(1, 2)
    /\ currentStep = Zero
    /\ transitionMatrix = <<>>
    /\ currentVector = <<>>
    /\ last = [op |-> "load", args |-> <<>>, out |-> Ret(<<>>)]

\* A variant of getParams that clamps n from above only.
getParamsNoLowerClamp(N_goal, n_start, p_win) ==
    LET N == OrElse(parseInt(N_goal), One)
        n0 == OrElse(parseInt(n_start), Zero)
        p0 == OrElse(parseFloat(p_win), Zero)
        n == IF JsGt(n0, N) THEN N ELSE n0
        p == IF JsLt(p0, Zero) \/ JsGt(p0, One) THEN Min(Max(Zero, p0), One) ELSE p0
    IN  <<Numer(N), Numer(n), p>>

\* The values getParams leaves in <<N_global, n_global, p_global>>.
getParams(N_goal, n_start, p_win) ==
    LET N == OrElse(parseInt(N_goal), One)
        n0 == OrElse(parseInt(n_start), Zero)
        p0 == OrElse(parseFloat(p_win), Zero)
        n == IF JsLt(n0, Zero) \/ JsGt(n0, N) THEN Min(Max(Zero, n0), N) ELSE n0
        p == IF JsLt(p0, Zero) \/ JsGt(p0, One) THEN Min(Max(Zero, p0), One) ELSE p0
    IN  <<Numer(N), Numer(n), p>>

\* What resetSimulation computes from the input fields: <<N, n, p, matrix,
\* vector, outcome>>, the outcome telling whether building them threw.
resetOutcome(N_goal, n_start, p_win) ==
    LET g == getParams(N_goal, n_start, p_win)
        m == generateTransitionMatrix(g[1], g[3])
        v == generateInitialVector(g[1], g[2])
    IN  <<g[1], g[2], g[3], Val(m), Val(v),
          IF Threw(m) THEN m ELSE IF Threw(v) THEN v ELSE Ret(<<>>)>>

\* resetOutcome tabulated over the inputs: a constant, evaluated once (@@ makes
\* the function an explicit table instead of a rule re-evaluated on each use).
resetTable == [i \in ResetInputs |-> resetOutcome(i[1], i[2], i[3])] @@ <<>>

resetSimulation(N_goal, n_start, p_win) ==
    LET r == resetTable[<<N_goal, n_start, p_win>>]
    IN  /\ N_global' = r[1]
        /\ n_global' = r[2]
        /\ p_global' = r[3]
        /\ IF Threw(r[6])
           THEN UNCHANGED <<transitionMatrix, currentVector, currentStep>>
           ELSE /\ transitionMatrix' = r[4]
                /\ currentVector' = r[5]
                /\ currentStep' = Zero
        /\ last' = [op |-> "resetSimulation",
                    args |-> <<N_goal, n_start, p_win>>, out |-> r[6]]

\* A variant of coerceK that tests k < 0 instead of k < 1.
coerceKNegativeOnly(k) == IF JsLt(k, Zero) \/ isNaN(k) THEN One ELSE k

\* k as advanceSteps uses it after its first line.
coerceK(k) == IF JsLt(k, One) \/ isNaN(k) THEN One ELSE k

\* matrixPower tabulated over the matrices the session can hold and the
\* exponents advanceSteps can pass (a constant, evaluated once).
powerTable ==
    [a \in ({<<>>} \cup {resetTable[i][4] : i \in ResetInputs})
           \X {coerceK(k) : k \in KInputs} |-> matrixPower(a[1], a[2])] @@ <<>>

\* pi_new = pi_old * P^k, as advanceSteps computes it.
advanceVector(v, M, k) ==
    LET Pk == IF <<M, k>> \in DOMAIN powerTable
              THEN powerTable[<<M, k>>] ELSE matrixPower(M, k)
    IN  IF Threw(Pk) THEN Pk ELSE vectorMatrixMultiply(v, Val(Pk))

advanceSteps(k) ==
    \E k1 \in {coerceK(k)} :
      /\ JsLe(Add(currentStep, k1), Num(MaxStep))
      /\ \E out \in {advanceVector(currentVector, transitionMatrix, k1)} :
        /\ IF Threw(out)
           THEN UNCHANGED <<currentVector, currentStep>>
           ELSE /\ currentVector' = Val(out)
                /\ currentStep' = Add(currentStep, k1)
        /\ UNCHANGED <<N_global, n_global, p_global, transitionMatrix>>
        /\ last' = [op |-> "advanceSteps", args |-> <<k>>,
                    out |-> IF Threw(out) THEN out ELSE Ret(<<>>)]

Reset == \E i \in ResetInputs : resetSimulation(i[1], i[2], i[3])

Advance == \E k \in KInputs : advanceSteps(k)

Next == Reset \/ Advance

Spec == Init /\ [][Next]_vars

(***************************************************************************)
(* The algebra called directly: a second specification in which, from any  *)
(* state a first reset leaves, the pure functions are applied to inputs    *)
(* drawn from bounded sets.  last records the call and its outcome.        *)
(***************************************************************************)
RECURSIVE SumSeq(_, _)
SumSeq(v, n) == IF n = 0 THEN Zero ELSE Add(SumSeq(v, n - 1), v[n])

\* The vectors of a given length whose entries are halves summing to 1.
Distributions(len) ==
    {[i \in 1..len |-> Rat(f[i], 2)] :
        f \in {g \in [1..len -> 0..2] : SumSeq([i \in 1..len |-> Num(g[i])], len) = Two}}

VectorInputs == {<<>>} \cup UNION {Distributions(len) : len \in 1..(MaxN + 2)}
MatrixInputs == {<<>>} \cup {resetTable[i][4] : i \in ResetInputs}

InitAlgebra ==
    \E i \in ResetInputs :
        LET r == resetTable[i]
        IN  /\ N_global = r[1]
            /\ n_global = r[2]
            /\ p_global = r[3]
            /\ currentStep = Zero
            /\ transitionMatrix = r[4]
            /\ currentVector = r[5]
            /\ last = [op |-> "resetSimulation", args |-> i, out |-> r[6]]

\* One call per behaviour: a call changes nothing that a later call reads.
NoCallYet == last.op = "resetSimulation"

Call(op, args, out) ==
    /\ last' = [op |-> op, args |-> args, out |-> out]
    /\ UNCHANGED session

CallMatrixPower ==
    /\ NoCallYet
    /\ \E k \in KInputs :
           Call("matrixPower", <<transitionMatrix, k>>,
                matrixPower(transitionMatrix, k))

CallMatrixMultiply ==
    /\ NoCallYet
    /\ \E B \in MatrixInputs :
           Call("matrixMultiply", <<transitionMatrix, B>>,
                matrixMultiply(transitionMatrix, B))

CallVectorMatrixMultiply ==
    /\ NoCallYet
    /\ \E v \in VectorInputs :
           Call("vectorMatrixMultiply", <<v, transitionMatrix>>,
                vectorMatrixMultiply(v, transitionMatrix))

CallAdvanceVector ==
    /\ NoCallYet
    /\ \E v \in Distributions(Len(transitionMatrix)), k \in 1..MaxK :
           Call("advanceVector", <<v, transitionMatrix, Num(k)>>,
                advanceVector(v, transitionMatrix, Num(k)))

CallGenerateTransitionMatrix ==
    /\ NoCallYet
    /\ \E N \in -2..MaxN, q \in -1..5 :
           Call("generateTransitionMatrix", <<N, Rat(q, 4)>>,
                generateTransitionMatrix(N, Rat(q, 4)))

NextAlgebra ==
    \/ CallMatrixPower
    \/ CallMatrixMultiply
    \/ CallVectorMatrixMultiply
    \/ CallAdvanceVector
    \/ CallGenerateTransitionMatrix

SpecAlgebra == InitAlgebra /\ [][NextAlgebra]_vars

(***************************************************************************)
(* Vocabulary of the properties.                                           *)
(***************************************************************************)
\* The session holds a chain: the last reset completed with N >= 1.
Ready == N_global >= 1 /\ Len(transitionMatrix) = N_global + 1

IsProbability(x) == IsNum(x) /\ JsLe(Zero, x) /\ JsLe(x, One)
IsDistribution(v) ==
    /\ \A i \in 1..Len(v) : IsNum(v[i]) /\ JsLe(Zero, v[i])
    /\ SumSeq(v, Len(v)) = One
OneHot(len, idx) == [i \in 1..len |-> IF i - 1 = idx THEN One ELSE Zero]
ClampInt(x, lo, hi) == IF x < lo THEN lo ELSE IF x > hi THEN hi ELSE x
ClampNum(x, lo, hi) == IF JsLt(x, lo) THEN lo ELSE IF JsGt(x, hi) THEN hi ELSE x

RECURSIVE Stepwise(_, _, _)
\* vectorMatrixMultiply(., M) applied k times in sequence, k a natural number.
Stepwise(v, M, k) ==
    IF k = 0 THEN Ret(v)
    ELSE LET r == Stepwise(v, M, k - 1)
         IN  IF Threw(r) THEN r ELSE vectorMatrixMultiply(Val(r), M)

(***************************************************************************)
(* C1.                                                                     *)
(***************************************************************************)
\* C1: for a transition matrix M built by generateTransitionMatrix, a
\* distribution v of matching length and an integer k >= 1, the multi-step
\* advance (matrixPower by repeated squaring, then one vectorMatrixMultiply)
\* returns the same vector as k single vectorMatrixMultiply steps in sequence.
C1_SquaringEqualsStepwise ==
    (last.op = "advanceVector" /\ Len(last.args[2]) >= 2)
        => /\ ~Threw(last.out)
           /\ last.out = Stepwise(last.args[1], last.args[2], Numer(last.args[3]))

\* A three-step advance of a vector with mass on a transient state of a chain
\* with p = 1/4 has been computed.
C1_Witness ==
    /\ last.op = "advanceVector"
    /\ last.args[3] = Num(3)
    /\ Len(last.args[2]) = 4
    /\ p_global = Rat(1, 4)
    /\ last.args[1][2] = Rat(1, 2)
    /\ last.args[1][3] = Rat(1, 2)

(***************************************************************************)
(* C2.                                                                     *)
(***************************************************************************)
\* C2: in every state reached by a reset with N >= 1 followed by any sequence
\* of advance calls, the current vector has length N+1, every entry is >= 0
\* and the entries sum to 1.
C2_VectorIsDistribution ==
    Ready => /\ Len(currentVector) = N_global + 1
             /\ IsDistribution(currentVector)

\* Two or more steps into a chain, with mass still on a transient state.
C2_Witness ==
    /\ Ready
    /\ last.op = "advanceSteps"
    /\ JsLe(Two, currentStep)
    /\ \E i \in 2..N_global : JsLt(Zero, currentVector[i]) /\ JsLt(currentVector[i], One)

(***************************************************************************)
(* C3.                                                                     *)
(***************************************************************************)
\* C3: after a reset with N >= 1, an integer n and a real p, the session
\* holds n clamped into [0, N] and p clamped into [0, 1], the step count is 0
\* and the current vector is one-hot at the clamped n, whatever the session
\* held before.
C3_ResetClamps ==
    (/\ last.op = "resetSimulation"
     /\ IsInteger(last.args[1]) /\ Numer(last.args[1]) >= 1
     /\ IsInteger(last.args[2])
     /\ IsNum(last.args[3]))
        => /\ ~Threw(last.out)
           /\ N_global = Numer(last.args[1])
           /\ n_global = ClampInt(Numer(last.args[2]), 0, N_global)
           /\ p_global = ClampNum(last.args[3], Zero, One)
           /\ currentStep = Zero
           /\ currentVector = OneHot(N_global + 1, n_global)

\* A reset with n below 0 and p above 1 has completed.
C3_Witness ==
    /\ last.op = "resetSimulation"
    /\ last.args = <<Num(MaxN), Num(-3), Rat(3, 2)>>
    /\ n_global = 0
    /\ p_global = One

(***************************************************************************)
(* C4.                                                                     *)
(***************************************************************************)
\* C4: after every reset, whatever N is supplied, the session's N is an
\* integer >= 1 (a non-numeric or <= 0 N falls back to 1), the matrix has
\* size N+1 >= 2 and the reset completes.
C4_ResetAlwaysReady ==
    last.op = "resetSimulation"
        => /\ ~Threw(last.out)
           /\ N_global >= 1
           /\ Len(transitionMatrix) = N_global + 1
           /\ (~IsNum(last.args[1]) \/ Numer(last.args[1]) <= 0) => N_global = 1

(***************************************************************************)
(* C5.                                                                     *)
(***************************************************************************)
InvalidK(k) == isNaN(k) \/ JsLe(k, Zero)

\* C5: in a Ready session, advance(k) with k non-positive or not a number is
\* not rejected and leaves the vector and the step count that advance(1)
\* leaves from the same state (old step count + 1).
C5_InvalidKIsOne ==
    [][(Ready /\ last'.op = "advanceSteps" /\ InvalidK(last'.args[1]))
        => /\ ~Threw(last'.out)
           /\ Ret(currentVector') = advanceVector(currentVector, transitionMatrix, One)
           /\ currentStep' = Add(currentStep, One)]_vars

\* advance(NaN) has moved mass in a chain that had already taken a step.
C5_Witness ==
    /\ Ready
    /\ last.op = "advanceSteps"
    /\ last.args = <<NaN>>
    /\ currentStep = Two
    /\ N_global = 3 /\ n_global = 1 /\ p_global = Rat(1, 4)
    /\ currentVector = <<Rat(3, 4), Rat(3, 16), Zero, Rat(1, 16)>>

(***************************************************************************)
(* C6.                                                                     *)
(***************************************************************************)
\* C6: matrixPower (here on a chain's transition matrix) raises an error, and
\* returns no matrix, for every negative k and every non-integer k.
C6_PowerRejectsBadExponent ==
    (/\ last.op = "matrixPower"
     /\ Len(last.args[1]) >= 2
     /\ IsNum(last.args[2])
     /\ (Numer(last.args[2]) < 0 \/ Denom(last.args[2]) # 1))
        => Threw(last.out)

(***************************************************************************)
(* C7.                                                                     *)
(***************************************************************************)
\* C7: vectorMatrixMultiply(v, M) fails, returning no result, whenever
\* length(v) differs from the number of rows of M, as matrixMultiply(A, B)
\* fails when columns(A) differs from rows(B).
C7_DimensionMismatchRaised ==
    /\ (last.op = "vectorMatrixMultiply" /\ Len(last.args[1]) # Len(last.args[2]))
          => Threw(last.out)
    /\ (/\ last.op = "matrixMultiply"
        /\ Len(last.args[1]) > 0
        /\ Len(last.args[1][1]) # Len(last.args[2]))
          => Threw(last.out)

(***************************************************************************)
(* C8.                                                                     *)
(***************************************************************************)
\* C8: for every integer N >= 1 and every p in [0, 1],
\* generateTransitionMatrix(N, p) is an (N+1)x(N+1) matrix whose rows each
\* sum to 1 and whose rows 0 and N are one-hot on the diagonal.
C8_RowsStochasticAbsorbing ==
    (/\ last.op = "generateTransitionMatrix"
     /\ last.args[1] >= 1
     /\ IsProbability(last.args[2]))
        => /\ ~Threw(last.out)
           /\ LET M == Val(last.out)
                  N == last.args[1]
              IN  /\ Len(M) = N + 1
                  /\ \A i \in 1..(N + 1) :
                        Len(M[i]) = N + 1 /\ SumSeq(M[i], N + 1) = One
                  /\ M[1] = OneHot(N + 1, 0)
                  /\ M[N + 1] = OneHot(N + 1, N)

\* A matrix with two transient rows and p = 1/4 has been built.
C8_Witness ==
    /\ last.op = "generateTransitionMatrix"
    /\ last.args = <<3, Rat(1, 4)>>
    /\ ~Threw(last.out)
    /\ Val(last.out)[2] = <<Rat(3, 4), Zero, Rat(1, 4), Zero>>

(***************************************************************************)
(* C9.                                                                     *)
(***************************************************************************)
\* C9: in a Ready session every advance is accepted and leaves at index 0 and
\* at index N at least the mass that was there; once all mass lies on indices
\* 0 and N, an advance leaves the vector unchanged.
C9_AbsorbedMassStays ==
    [][(Ready /\ last'.op = "advanceSteps")
        => /\ ~Threw(last'.out)
           /\ Len(currentVector') = N_global + 1
           /\ JsLe(currentVector[1], currentVector'[1])
           /\ JsLe(currentVector[N_global + 1], currentVector'[N_global + 1])
           /\ (Add(currentVector[1], currentVector[N_global + 1]) = One
                  => currentVector' = currentVector)]_vars

\* A chain started on its transient state was absorbed after one step (N = 2)
\* and has been advanced again from step 2 to step 3.
C9_Witness ==
    /\ Ready
    /\ N_global = 2 /\ n_global = 1 /\ p_global = Rat(1, 4)
    /\ last.op = "advanceSteps"
    /\ last.args = <<One>>
    /\ currentStep = Num(3)
    /\ currentVector = <<Rat(3, 4), Zero, Rat(1, 4)>>

(***************************************************************************)
(* C10.                                                                    *)
(***************************************************************************)
\* C10: after a reset and any sequence of advance(k) calls with arbitrary
\* numbers k, the step counter is a non-negative integer and the current
\* vector is the initial one-hot vector times the transition matrix raised to
\* the step counter.
C10_StepCountsAppliedSteps ==
    Ready => /\ IsInteger(currentStep)
             /\ Numer(currentStep) >= 0
             /\ Ret(currentVector) =
                   Stepwise(OneHot(N_global + 1, n_global), transitionMatrix,
                            Numer(currentStep))

====
